---- MODULE Spec2Model ----
(***************************************************************************)
(* Cloud cost dashboard: the simulator loop (simulator/simulate_costs.py)  *)
(* appending rows to data/cloud_cost.csv, and the dashboard render pass    *)
(* (src/app.py) that loads the file through a cache, derives the metrics   *)
(* and the FinOps score, and offers the CSV / Excel / PDF downloads.       *)
(*                                                                         *)
(* Money is an integer number of 1/10000 USD (the simulator rounds to four *)
(* decimals).  used_cost and idle_cost are kept in tenths of that unit, so *)
(* that total * 0.7 and total * 0.3 are exact.  A quotient is a rational   *)
(* [num, den] or NaN; comparisons are done by cross multiplication.        *)
(***************************************************************************)
EXTENDS Integers, Sequences, FiniteSets

VARIABLES
    file,          \* data/cloud_cost.csv: [exists, rows]
    simPc,         \* simulator position: "start" | "loop"
    iterations,    \* number of rows the simulator loop has appended
    cache,         \* st.cache_data entry of load_data: [hit, table]
    pc,            \* render pass position: "idle" | "downloads"
    df,            \* the table load_data returned to the running pass
    total_cost,    \* 1/10000 USD
    used_cost,     \* tenths of 1/10000 USD
    idle_cost,     \* tenths of 1/10000 USD
    finops_score,
    tips,          \* set of tips appended
    widgets,       \* the elements the pass has emitted, in order
    crashed        \* the pass stopped on an uncaught exception

vars == <<file, simPc, iterations, cache, pc, df, total_cost, used_cost,
          idle_cost, finops_score, tips, widgets, crashed>>

simVars == <<simPc, iterations>>
passVars == <<df, total_cost, used_cost, idle_cost, finops_score, tips,
              widgets, crashed>>

\* ------------------------------------------------------------------ bounds

MaxAppends == 1
MaxInputRows == 2

\* ------------------------------------------------------------ generic helpers

RECURSIVE SumCost(_)
SumCost(t) == IF t = <<>> THEN 0 ELSE Head(t).cost_usd + SumCost(Tail(t))

RECURSIVE MaxCost(_)
MaxCost(t) ==
    IF Len(t) = 1 THEN t[1].cost_usd
    ELSE LET m == MaxCost(Tail(t))
         IN  IF t[1].cost_usd > m THEN t[1].cost_usd ELSE m

SeqsUpTo(S, n) == UNION {[1..k -> S] : k \in 0..n}

Range(q) == {q[i] : i \in 1..Len(q)}

IsPrefix(a, b) == Len(a) <= Len(b) /\ SubSeq(b, 1, Len(a)) = a

\* -------------------------------------------------------------- simulator

providers == {"AWS", "Azure", "GCP"}
services == {"EC2", "S3", "RDS", "Lambda"}
regions == {"us-east-1", "us-west-2", "eu-west-1"}

\* (low, high) in 1/10000 USD
BASE_COST ==
    [s \in services |->
        CASE s = "EC2" -> <<200, 2500>>
          [] s = "S3" -> <<100, 500>>
          [] s = "RDS" -> <<500, 3000>>
          [] s = "Lambda" -> <<10, 200>>]

\* random.uniform(low, high): draws in 1/100000 USD, at and next to both ends
Uniform(range) ==
    {10 * range[1], 10 * range[1] + 4, 10 * range[2] - 4, 10 * range[2]}

\* round(x, 4): from 1/100000 USD to the nearest 1/10000 USD
Round4(x) == (x + 5) \div 10

\* str(datetime.now()) as written to the CSV
Now == "2024-03-20 10:15:00.123456"

NumCell(v) == [text |-> "num", val |-> v]

Record(p, s, r, c) ==
    [date |-> Now, cloud_provider |-> p, service |-> s, region |-> r,
     cost_usd |-> NumCell(c)]

\* mutant: mode="w", the file is rewritten with the one record
ToCsvOverwrite(f, rec) == [exists |-> TRUE, rows |-> <<rec>>]

\* df.to_csv(DATA_PATH, mode="a", header=False)
ToCsvAppend(f, rec) == [exists |-> TRUE, rows |-> Append(f.rows, rec)]

SimInit ==
    /\ simPc = "start"
    /\ simPc' = "loop"
    /\ file' = IF file.exists THEN file ELSE [exists |-> TRUE, rows |-> <<>>]
    /\ UNCHANGED <<iterations, cache, pc, passVars>>

SimIterate ==
    /\ simPc = "loop"
    /\ iterations < MaxAppends
    /\ \E p \in providers, s \in services, r \in regions :
         \* line 46: the range is that of a second random.choice(services)
         \E costOf \in services :
            \E x \in Uniform(BASE_COST[costOf]) :
               file' = ToCsvAppend(file, Record(p, s, r, Round4(x)))
    /\ iterations' = iterations + 1
    /\ UNCHANGED <<simPc, cache, pc, passVars>>

\* --------------------------------------------------------------- load_data

NaT == [nat |-> TRUE, month |-> 0]

\* pd.to_datetime(errors="coerce", format="mixed") of one cell
ToDatetime(cell) ==
    CASE cell = "2024-01-15" -> [nat |-> FALSE, month |-> 1]
      [] cell = "03/20/2024" -> [nat |-> FALSE, month |-> 3]
      [] cell = Now -> [nat |-> FALSE, month |-> 3]
      [] OTHER -> NaT

NaN == [nan |-> TRUE, val |-> 0]

\* pd.to_numeric(errors="coerce") of one cell
ToNumeric(cell) ==
    IF cell.text = "num" THEN [nan |-> FALSE, val |-> cell.val] ELSE NaN

FillNa(x, v) == IF x.nan THEN v ELSE x.val

\* mutant: no row is dropped
DropNaDateOmitted(t) == t

\* df.dropna(subset=["date"])
DropNaDate(t) == SelectSeq(t, LAMBDA r : ~r.date.nat)

ParseDates(rows) ==
    [i \in 1..Len(rows) |-> [rows[i] EXCEPT !.date = ToDatetime(rows[i].date)]]

NumericCosts(t) ==
    [i \in 1..Len(t) |->
        [t[i] EXCEPT !.cost_usd = FillNa(ToNumeric(t[i].cost_usd), 0)]]

LoadData(rows) == NumericCosts(DropNaDate(ParseDates(rows)))

NoCache == [hit |-> FALSE, table |-> <<>>]

\* @st.cache_data: the stored table when there is one, else the function's result
CachedLoad(c, rows) == IF c.hit THEN c.table ELSE LoadData(rows)

\* ------------------------------------------------------------------ metrics

\* mutant: idle cost rounded down to a whole 1/10000 USD
IdleCostRounded(total) == ((total * 3) \div 10) * 10

UsedCost(total) == total * 7
IdleCost(total) == total * 3

\* a / b where a is in tenths of the unit of b
Div(a, b) ==
    IF b = 0 THEN [nan |-> TRUE, num |-> 0, den |-> 1]
    ELSE IF b > 0 THEN [nan |-> FALSE, num |-> a, den |-> 10 * b]
    ELSE [nan |-> FALSE, num |-> -a, den |-> -10 * b]

\* q < tenths / 10 and q > tenths / 10; any comparison with NaN is false
Less(q, tenths) == ~q.nan /\ q.num * 10 < tenths * q.den
Greater(q, tenths) == ~q.nan /\ q.num * 10 > tenths * q.den

\* mutant: the tiers are cut on total cost at 50, 100, 200 and 300 USD
FinopsScoreByTotal(idle, total) ==
    IF total < 500000 THEN 5
    ELSE IF total < 1000000 THEN 4
    ELSE IF total < 2000000 THEN 3
    ELSE IF total < 3000000 THEN 2
    ELSE 1

\* mutant: the tiers include their upper end (<= for <)
FinopsScoreInclusive(idle, total) ==
    LET q == Div(idle, total)
    IN  IF ~Greater(q, 2) /\ ~q.nan THEN 5
        ELSE IF ~Greater(q, 3) /\ ~q.nan THEN 4
        ELSE IF ~Greater(q, 4) /\ ~q.nan THEN 3
        ELSE IF ~Greater(q, 5) /\ ~q.nan THEN 2
        ELSE 1

FinopsScore(idle, total) ==
    LET q == Div(idle, total)
    IN  IF Less(q, 2) THEN 5
        ELSE IF Less(q, 3) THEN 4
        ELSE IF Less(q, 4) THEN 3
        ELSE IF Less(q, 5) THEN 2
        ELSE 1

\* len(trend): monthly bins from the first to the last month present
TrendLen(t) ==
    IF t = <<>> THEN 0
    ELSE LET ms == {t[i].date.month : i \in 1..Len(t)}
             lo == CHOOSE m \in ms : \A k \in ms : m <= k
             hi == CHOOSE m \in ms : \A k \in ms : m >= k
         IN  hi - lo + 1

\* max > mean * 2; false on an empty table (NaN > NaN)
CostSpike(t) == t # <<>> /\ MaxCost(t) * Len(t) > 2 * SumCost(t)

Tips(t, idle, total) ==
    (IF Greater(Div(idle, total), 3) THEN {"high_idle"} ELSE {})
    \cup (IF CostSpike(t) THEN {"cost_spikes"} ELSE {})
    \cup (IF TrendLen(t) >= 3 THEN {"forecasting"} ELSE {})

BodyWidgets(t, tp) ==
    <<"kpi_cards", "trend_chart", "usage_chart">>
    \o <<IF tp # {} THEN "tips_success" ELSE "tips_info">>
    \o <<IF TrendLen(t) >= 2 THEN "forecast_metric" ELSE "forecast_info">>
    \o <<"csv_button", "excel_button">>

\* ------------------------------------------------------------- render pass

\* An uncaught exception ends the pass; what was emitted stays on the page.
RenderCrash(w) ==
    /\ crashed' = TRUE
    /\ widgets' = w
    /\ pc' = "idle"

\* src/app.py lines 40-181: load, metrics, charts, tips, forecast, CSV, Excel
RenderBody ==
    /\ pc = "idle"
    /\ UNCHANGED <<file, simVars>>
    /\ IF ~cache.hit /\ ~file.exists
       THEN /\ RenderCrash(<<>>)
            /\ UNCHANGED <<cache, df, total_cost, used_cost, idle_cost,
                           finops_score, tips>>
       ELSE LET t == CachedLoad(cache, file.rows)
                total == SumCost(t)
                tp == Tips(t, IdleCost(total), total)
            IN  /\ cache' = [hit |-> TRUE, table |-> t]
                /\ df' = t
                /\ total_cost' = total
                /\ used_cost' = UsedCost(total)
                /\ idle_cost' = IdleCost(total)
                /\ finops_score' = FinopsScore(IdleCost(total), total)
                /\ tips' = tp
                /\ widgets' = BodyWidgets(t, tp)
                /\ crashed' = FALSE
                /\ pc' = "downloads"

\* mutant: no try/except, a failing export ends the pass with nothing emitted
PdfWidgetsUncaught(pdfOk) ==
    IF pdfOk THEN <<"pdf_button", "footer">> ELSE <<>>

\* the widgets the PDF column and the footer add
PdfWidgets(pdfOk) ==
    <<IF pdfOk THEN "pdf_button" ELSE "pdf_warning", "footer">>

\* src/app.py lines 184-216: PDF export in try/except, then the footer
PdfExport(pdfOk) ==
    /\ pc = "downloads"
    /\ widgets' = widgets \o PdfWidgets(pdfOk)
    /\ pc' = "idle"
    /\ UNCHANGED <<file, simVars, cache, df, total_cost, used_cost, idle_cost,
                   finops_score, tips, crashed>>

\* run_app.py: a new streamlit server process starts with an empty cache
RunApp ==
    /\ pc = "idle"
    /\ cache.hit
    /\ cache' = NoCache
    /\ UNCHANGED <<file, simVars, pc, passVars>>

\* ---------------------------------------------------------- specifications

GoodRow == [date |-> "2024-01-15", cloud_provider |-> "AWS", service |-> "EC2",
            region |-> "us-east-1", cost_usd |-> NumCell(1200)]
BadDateRow == [GoodRow EXCEPT !.date = "not-a-date"]

InitFiles ==
    {[exists |-> FALSE, rows |-> <<>>]}
    \cup {[exists |-> TRUE, rows |-> rs] :
            rs \in {<<>>, <<BadDateRow, GoodRow>>}}

InitPass ==
    /\ simPc = "start"
    /\ iterations = 0
    /\ cache = NoCache
    /\ pc = "idle"
    /\ df = <<>>
    /\ total_cost = 0
    /\ used_cost = 0
    /\ idle_cost = 0
    /\ finops_score = 0
    /\ tips = {}
    /\ widgets = <<>>
    /\ crashed = FALSE

Init == file \in InitFiles /\ InitPass

DashNext ==
    \/ RenderBody
    \/ \E pdfOk \in BOOLEAN : PdfExport(pdfOk)
    \/ RunApp

Next == SimInit \/ SimIterate \/ DashNext

Spec == Init /\ [][Next]_vars

\* The dashboard alone over input tables with malformed cells and with totals
\* at and next to 45, 50, 100, 200, 250 and 300 USD.
DateCells == {"2024-01-15", "03/20/2024", "not-a-date"}
CostCells ==
    {NumCell(v) : v \in {-450000, 0, 450000, 499999, 500000, 999999, 1000000,
                         1999999, 2000000, 2500000, 2999999, 3000000}}
    \cup {[text |-> "n/a", val |-> 0]}

InputRows ==
    {[GoodRow EXCEPT !.date = d, !.cost_usd = c] :
        d \in DateCells, c \in CostCells}

InitRender ==
    /\ file \in {[exists |-> TRUE, rows |-> rs] :
                    rs \in SeqsUpTo(InputRows, MaxInputRows)}
    /\ InitPass

RenderSpec == InitRender /\ [][DashNext]_vars

\* ------------------------------------------------------------------ claims

\* a pass has computed its metrics and emitted its elements
Rendered == widgets # <<>>

\* the score the pass gives a table whose costs sum to t
ScoreOf(t) == FinopsScore(IdleCost(t), t)

Boundaries == {500000, 1000000, 2000000, 3000000}
Totals == {c.val : c \in CostCells}

C2_EmptyTableDefined ==
    (Rendered /\ df = <<>>) =>
        /\ total_cost = 0
        /\ ~Div(idle_cost, total_cost).nan
        /\ finops_score = 5

\* C3 as stated: total 45 USD gives score 5, total 250 USD gives score 2 or 1.
C3_ExampleScores ==
    Rendered =>
        /\ total_cost = 450000 => finops_score = 5
        /\ total_cost = 2500000 => finops_score \in {1, 2}

\* C3 amended: total 45 USD and total 250 USD both give score 3.
C3_ExampleScoresAreThree ==
    Rendered => (total_cost \in {450000, 2500000} => finops_score = 3)

C3_Witness ==
    /\ Rendered
    /\ total_cost = 2500000
    /\ Len(df) = 2

\* C4 as stated: the table a pass works on is the file's content at the time
\* of that pass.
C4_FreshRead ==
    [][(pc = "idle" /\ pc' = "downloads") => df' = LoadData(file.rows)]_vars

\* C5: the file's rows only grow at the end: every step keeps the earlier rows
\* as a prefix, a simulator iteration adds exactly one row, and a step of the
\* render pass leaves the file as it was.
C5_AppendOnly ==
    [][/\ IsPrefix(file.rows, file'.rows)
       /\ file.exists => file'.exists
       /\ iterations' # iterations =>
             /\ Len(file'.rows) = Len(file.rows) + 1
             /\ file'.rows[Len(file'.rows)].date = Now
       /\ (pc' # pc \/ cache' # cache \/ crashed' # crashed) => file' = file
      ]_vars

C5_Witness ==
    /\ iterations = MaxAppends
    /\ Len(file.rows) = 2 + MaxAppends
    /\ "footer" \in Range(widgets)
    /\ Len(df) = 1 + MaxAppends

\* C6: when the PDF export fails, the step emits the warning and the footer
\* after the CSV and Excel buttons, emits no PDF button, does not crash and
\* leaves the metrics as they were.
C6_PdfFailureDegrades ==
    [][(pc = "downloads" /\ pc' = "idle" /\ "pdf_button" \notin Range(widgets'))
        => /\ ~crashed'
           /\ widgets' = widgets \o <<"pdf_warning", "footer">>
           /\ {"csv_button", "excel_button"} \subseteq Range(widgets')
           /\ <<total_cost', used_cost', idle_cost', finops_score', tips'>>
                 = <<total_cost, used_cost, idle_cost, finops_score, tips>>
      ]_vars

C6_Witness ==
    /\ "pdf_warning" \in Range(widgets)
    /\ "footer" \in Range(widgets)
    /\ total_cost > 0

\* the rows of the file whose date parses
Kept(rows) == {i \in 1..Len(rows) : ~ToDatetime(rows[i].date).nat}

\* the cost of a row when its cell is a number, else 0
CostOrZero(row) == IF row.cost_usd.text = "num" THEN row.cost_usd.val ELSE 0

RECURSIVE SumOver(_, _)
SumOver(S, rows) ==
    IF S = {} THEN 0
    ELSE LET i == CHOOSE j \in S : TRUE
         IN  CostOrZero(rows[i]) + SumOver(S \ {i}, rows)

\* C7: the loaded table is the file's rows with a parseable date, in order,
\* each with its date parsed and its cost kept, or 0 when the cost does not
\* parse; the pass does not fail and total cost is the sum of those costs.
C7_LoadCoerces ==
    Rendered =>
        LET rows == file.rows
            K == Kept(rows)
        IN  /\ ~crashed
            /\ Len(df) = Cardinality(K)
            /\ \A i \in K :
                  LET k == Cardinality({j \in K : j <= i})
                  IN  /\ df[k].date = ToDatetime(rows[i].date)
                      /\ ~df[k].date.nat
                      /\ df[k].cost_usd = CostOrZero(rows[i])
                      /\ df[k].service = rows[i].service
            /\ \A k \in 1..Len(df) : df[k].cost_usd \in Int
            /\ total_cost = SumOver(K, rows)

C7_Witness ==
    /\ Rendered
    /\ Len(file.rows) = 2
    /\ file.rows[1].date = "not-a-date"
    /\ file.rows[2].cost_usd.text = "n/a"
    /\ Len(df) = 1

\* C9: for every table with a positive total the score is the same, 3, and in
\* 1..5; idle cost is 30% and used cost 70% of the total, they add up to the
\* total, and the high idle cost tip is not emitted.
C9_ScoreIgnoresData ==
    (Rendered /\ total_cost > 0) =>
        /\ finops_score \in 1..5
        /\ \A t \in Totals : t > 0 => ScoreOf(t) = finops_score
        /\ idle_cost = 3 * total_cost
        /\ used_cost = 7 * total_cost
        /\ used_cost + idle_cost = 10 * total_cost
        /\ "high_idle" \notin tips

C9_Witness ==
    /\ Rendered
    /\ total_cost = 499999
    /\ Len(df) = 2

\* the rows the simulator loop has appended
Appended == SubSeq(file.rows, Len(file.rows) - iterations + 1, Len(file.rows))

\* C10 as stated: every appended record has its provider, service and region
\* from the lists and its cost within the BASE_COST range of its own service.
C10_CostInOwnServiceRange ==
    \A i \in 1..Len(Appended) :
        LET rec == Appended[i]
        IN  /\ rec.cloud_provider \in providers
            /\ rec.service \in services
            /\ rec.region \in regions
            /\ rec.cost_usd.text = "num"
            /\ BASE_COST[rec.service][1] <= rec.cost_usd.val
            /\ rec.cost_usd.val <= BASE_COST[rec.service][2]

====
